---- MODULE Spec2Model ----
(***************************************************************************)
(* The server-info page updater of static/js/server_info.js.               *)
(*                                                                         *)
(* The page polls {api_url}/server_info and writes the answer into three   *)
(* elements (map_title, server_name, players_table) and into the body's    *)
(* background image.  Text is a sequence of one-character strings, so that *)
(* escaping, string concatenation and the parse of a row's markup are      *)
(* computed character by character.                                        *)
(***************************************************************************)
EXTENDS Integers, Sequences, FiniteSets, TLC

(***************************************************************************)
(* Bounds of the model.                                                    *)
(***************************************************************************)
\* update_info_page is called at most MaxRequests times in a behaviour.
MaxRequests == 2
\* A response lists at most MaxPlayers players.
MaxPlayers == 2

(***************************************************************************)
(* Text.                                                                   *)
(***************************************************************************)
\* The value of a property that is absent (JavaScript's undefined).  No text
\* equals it: text is made of one-character strings.
undefined == <<"undefined">>

\* The sentinel the server sends for "no image".
None == <<"N", "o", "n", "e">>

\* Configuration of the page, read and never written by the script.
static_dir == <<"/", "s">>

\* A JavaScript condition on a text-or-undefined value: undefined and the
\* empty string are falsy, every other string is truthy.
Truthy(v) == v # undefined /\ v # <<>>

\* String.prototype.escape of one character.
EscapeChar(c) ==
    CASE c = "&"  -> <<"&", "a", "m", "p", ";">>
      [] c = "<"  -> <<"&", "l", "t", ";">>
      [] c = ">"  -> <<"&", "g", "t", ";">>
      [] c = "\"" -> <<"&", "q", "u", "o", "t", ";">>
      [] OTHER    -> <<c>>

RECURSIVE escape(_)
\* String.prototype.escape: the HTML-escaped text.
escape(s) == IF s = <<>> THEN <<>> ELSE EscapeChar(Head(s)) \o escape(Tail(s))

(***************************************************************************)
(* The markup of a row and its parse into cells.                           *)
(***************************************************************************)
TdOpen == <<"<", "t", "d", ">">>
TdClose == <<"<", "/", "t", "d", ">">>

StartsWith(s, p) == Len(s) >= Len(p) /\ SubSeq(s, 1, Len(p)) = p

\* The first position of p in s, 0 when s does not contain p.
IndexOf(s, p) ==
    LET hits == {i \in 1..(Len(s) - Len(p) + 1) :
                    \A j \in 1..Len(p) : s[i + j - 1] = p[j]}
    IN  IF hits = {} THEN 0 ELSE CHOOSE i \in hits : \A j \in hits : i <= j

\* The markup the callback builds for one player.
RowMarkup(player) ==
    TdOpen \o escape(player.name) \o TdClose \o TdOpen \o escape(player.skin) \o TdClose

RECURSIVE ParseCells(_)
\* tr.innerHTML = markup: the cells the row gets.  A cell runs from a <td> to
\* the next </td> (to the end of the markup when it is not closed); what
\* stands outside a cell makes no cell.  A cell is held as its inner markup.
ParseCells(markup) ==
    IF markup = <<>> THEN <<>>
    ELSE IF StartsWith(markup, TdOpen)
         THEN LET rest == SubSeq(markup, Len(TdOpen) + 1, Len(markup))
                  k == IndexOf(rest, TdClose)
              IN  IF k = 0 THEN <<rest>>
                  ELSE <<SubSeq(rest, 1, k - 1)>>
                         \o ParseCells(SubSeq(rest, k + Len(TdClose), Len(rest)))
         ELSE ParseCells(Tail(markup))

(***************************************************************************)
(* The responses of the server.                                            *)
(***************************************************************************)
\* The server whose responses are taken with every player list.
MainServer ==
    [servername |-> <<"S", "1">>,
     map |-> [name |-> <<"M", "&", "1">>, image |-> <<"a", ".", "j", "p", "g">>]]

\* What the server may report of itself and its map: a map has its own
\* name, and an image, the sentinel "None", an empty image or no image
\* property at all.
Servers ==
    { MainServer,
      [servername |-> <<"S", "2">>,
       map |-> [name |-> <<"M", "2">>, image |-> None]],
      [servername |-> <<"S", "<", "3">>,
       map |-> [name |-> <<"M", "3">>, image |-> <<>>]],
      [servername |-> <<"S", "&", "4">>,
       map |-> [name |-> <<"M", "<", "4">>]],
      [servername |-> <<"S", "2">>,
       map |-> [name |-> <<"M", "5">>, image |-> <<"b", ".", "p", "n", "g">>]] }

\* The well-formed players, and a player that lacks its name.
ValidPlayers ==
    { [name |-> <<"A", "<", "b", ">">>, skin |-> <<"u", "s">>],
      [name |-> <<"x", "\"">>, skin |-> <<"&">>] }
Nameless == [skin |-> <<"u", "s">>]

\* The player lists: up to MaxPlayers well-formed players, or well-formed
\* players followed by the nameless one.
ValidLists == UNION { [1..n -> ValidPlayers] : n \in 0..MaxPlayers }
PlayerLists ==
    ValidLists \cup { Append(p, Nameless) : p \in {q \in ValidLists : Len(q) < MaxPlayers} }

\* The value the callback gets when it is called with no data.
NoData == [nodata |-> TRUE]

\* The JSON values the endpoint may answer with: a server-info object (every
\* server with at most one player, the main server with every player list),
\* one that lacks its players, or an error object.
Data ==
    { [servername |-> s.servername, map |-> s.map, players |-> p] :
          s \in Servers, p \in {q \in PlayerLists : Len(q) <= 1} }
    \cup { [servername |-> MainServer.servername, map |-> MainServer.map, players |-> p] :
              p \in PlayerLists }
    \cup { [servername |-> s.servername, map |-> s.map] : s \in Servers }
    \cup { [error |-> <<"e">>] }

\* data has the shape of a ServerInfoResponse.
ValidPlayer(player) == "name" \in DOMAIN player /\ "skin" \in DOMAIN player
ValidResponse(data) ==
    /\ {"servername", "map", "players"} \subseteq DOMAIN data
    /\ "name" \in DOMAIN data.map
    /\ \A i \in 1..Len(data.players) : ValidPlayer(data.players[i])

\* data.map.image, undefined when the map has no image property.
ImageOf(data) == IF "image" \in DOMAIN data.map THEN data.map.image ELSE undefined

(***************************************************************************)
(* The state.                                                              *)
(***************************************************************************)
VARIABLES
    map_title,        \* the markup of the map_title element
    server_name,      \* the markup of the server_name element
    players_table,    \* the rows of players_table, each the sequence of its cells
    backgroundImage,  \* document.body.style.backgroundImage
    requests,         \* the calls of update_info_page, in the order they were made
    call,             \* the latest call of the render callback: request and data
    last              \* the latest run of the render callback: what it did

vars == <<map_title, server_name, players_table, backgroundImage, requests, call, last>>

\* The four regions of the page, as one value.
Page ==
    [map_title |-> map_title, server_name |-> server_name,
     players_table |-> players_table, backgroundImage |-> backgroundImage]

\* obj.f, undefined when obj has no property f.
Prop(obj, f) == IF f \in DOMAIN obj THEN obj[f] ELSE undefined

\* The markup an innerHTML assignment of v leaves: undefined is converted to
\* the string "undefined", a string is taken as it is.
InnerHTML(v) ==
    IF v = undefined THEN <<"u", "n", "d", "e", "f", "i", "n", "e", "d">> ELSE v

(***************************************************************************)
(* update_background.                                                      *)
(***************************************************************************)
\* The background image an image identifier stands for.
Url(image) ==
    <<"u", "r", "l", "(", "'">> \o static_dir \o <<"/", "i", "m", "g", "/">>
        \o image \o <<"'", ")">>

\* update_background taking the background away when there is no image.
update_background_reset(background, image) ==
    IF Truthy(image) /\ image # None THEN Url(image) ELSE <<>>

\* update_background with the "None" test left out.
update_background_no_sentinel(background, image) ==
    IF Truthy(image) THEN Url(image) ELSE background

\* update_background(image): the background image after the call, background
\* being the one before it.
update_background(background, image) ==
    IF Truthy(image) /\ image # None THEN Url(image) ELSE background

(***************************************************************************)
(* The render callback of update_info_page.  A run is a record of the page *)
(* it has made so far, the log of the writes it has done, and whether a    *)
(* statement has thrown; after a throw the remaining statements do nothing.*)
(***************************************************************************)
Begin(page) == [page |-> page, log |-> <<>>, threw |-> FALSE]

Throw(run) == [run EXCEPT !.threw = TRUE]

\* map_title.innerHTML = data.map.name, with the name escaped.
SetMapTitleEscaped(run, data) ==
    IF run.threw THEN run
    ELSE IF "map" \notin DOMAIN data THEN Throw(run)
    ELSE [run EXCEPT !.page.map_title = escape(InnerHTML(Prop(data.map, "name"))),
                     !.log = Append(@, "map_title")]

\* map_title.innerHTML = data.map.name
SetMapTitle(run, data) ==
    IF run.threw THEN run
    ELSE IF "map" \notin DOMAIN data THEN Throw(run)
    ELSE [run EXCEPT !.page.map_title = InnerHTML(Prop(data.map, "name")),
                     !.log = Append(@, "map_title")]

\* server_name.innerHTML = data.servername
SetServerName(run, data) ==
    IF run.threw THEN run
    ELSE [run EXCEPT !.page.server_name = InnerHTML(Prop(data, "servername")),
                     !.log = Append(@, "server_name")]

\* The clearing of the table left out: the rows of earlier refreshes stay.
ClearPlayersKeep(run) ==
    IF run.threw THEN run ELSE [run EXCEPT !.log = Append(@, "clear")]

\* players_table.innerHTML = ""
ClearPlayers(run) ==
    IF run.threw THEN run
    ELSE [run EXCEPT !.page.players_table = <<>>, !.log = Append(@, "clear")]

\* update_background(data.map.image)
CallUpdateBackground(run, data) ==
    IF run.threw THEN run
    ELSE [run EXCEPT
            !.page.backgroundImage = update_background(@, ImageOf(data)),
            !.log = Append(@, "update_background")]

\* One turn of the forEach with the new row put first in the table.
AppendRowFirst(run, player) ==
    IF run.threw THEN run
    ELSE IF ~ValidPlayer(player) THEN Throw(run)
    ELSE [run EXCEPT
            !.page.players_table = <<ParseCells(RowMarkup(player))>> \o @,
            !.log = Append(@, "appendChild")]

\* One turn of the forEach: a tr is created, its markup is set and it is
\* appended.  A player without name or skin throws before the row exists.
AppendRow(run, player) ==
    IF run.threw THEN run
    ELSE IF ~ValidPlayer(player) THEN Throw(run)
    ELSE [run EXCEPT
            !.page.players_table = Append(@, ParseCells(RowMarkup(player))),
            !.log = Append(@, "appendChild")]

RECURSIVE ForEach(_, _)
ForEach(run, players) ==
    IF players = <<>> THEN run
    ELSE ForEach(AppendRow(run, Head(players)), Tail(players))

\* data.players.forEach(...)
AppendRows(run, data) ==
    IF run.threw THEN run
    ELSE IF "players" \notin DOMAIN data THEN Throw(run)
    ELSE ForEach(run, data.players)

\* The callback with update_background called after the rows.
callback_background_last(page, data) ==
    CallUpdateBackground(
        AppendRows(
            ClearPlayers(SetServerName(SetMapTitle(Begin(page), data), data)),
            data),
        data)

\* The callback update_info_page hands to get_server_info, statement by
\* statement in the order of the source.
callback(page, data) ==
    AppendRows(
        CallUpdateBackground(
            ClearPlayers(SetServerName(SetMapTitle(Begin(page), data), data)),
            data),
        data)

(***************************************************************************)
(* get_server_info: fetch(...).then(response => response.json())           *)
(*                            .then(callback)                              *)
(* A request is the state of the promise of fetch, the state of the        *)
(* promise of response.json() ("none" until fetch has settled), the status *)
(* of the response while its body is read, and the number of times the     *)
(* callback was called for it.                                             *)
(***************************************************************************)
Pending(r) == r.fetch = "pending" \/ r.json = "pending"

Rejected == [state |-> "rejected"]
Fulfilled(v) == [state |-> "fulfilled", value |-> v]

\* The statuses a response may carry.
Statuses == {"2xx", "non2xx"}

\* How fetch may settle: rejected on a network failure, fulfilled with the
\* response whatever its status.
FetchOutcomes == {Rejected} \cup {Fulfilled(s) : s \in Statuses}

\* How response.json() may settle: rejected when the body is not JSON,
\* fulfilled with the parsed value otherwise.
JsonOutcomes == {Rejected} \cup {Fulfilled(d) : d \in Data}

NewRequest == [fetch |-> "pending", json |-> "none", response |-> "none", calls |-> 0]

\* A new call that cancels the requests still pending.
get_server_info_cancelling(reqs) ==
    Append([i \in 1..Len(reqs) |->
                IF Pending(reqs[i])
                THEN [reqs[i] EXCEPT !.fetch = IF @ = "pending" THEN "rejected" ELSE @,
                                     !.json = "rejected", !.response = "none"]
                ELSE reqs[i]],
           NewRequest)

\* get_server_info(callback): the request is sent; the requests already in
\* flight are left alone.
get_server_info(reqs) == Append(reqs, NewRequest)

\* A then that calls its handler whatever the promise settled to.
then_calls_always(p) == TRUE

\* promise.then(handler) calls handler only when promise is fulfilled.
then_calls(p) == p.state = "fulfilled"

\* The record of a run of the callback on data: whether it threw, its
\* writes, and whether it completed on the data the run before completed on.
RunRecord(data, run) ==
    [threw |-> run.threw, log |-> run.log,
     repeat |-> /\ ~run.threw
                /\ call.id # 0
                /\ ~last.threw
                /\ call.data = data]

\* A callback that drops its data when a later request was rendered already.
ThenCallbackNewestOnly(id, p, r) ==
    IF then_calls(p)
    THEN LET data == IF p.state = "fulfilled" THEN p.value ELSE NoData
             stale == \E j \in (id + 1)..Len(requests) : requests[j].calls > 0
             run == IF stale THEN Begin(Page) ELSE callback(Page, data)
         IN  /\ requests' = [requests EXCEPT
                               ![id] = [r EXCEPT !.json = p.state, !.response = "none",
                                                 !.calls = @ + 1]]
             /\ call' = [id |-> id, data |-> data]
             /\ last' = RunRecord(data, run)
             /\ map_title' = run.page.map_title
             /\ server_name' = run.page.server_name
             /\ players_table' = run.page.players_table
             /\ backgroundImage' = run.page.backgroundImage
    ELSE /\ requests' = [requests EXCEPT
                           ![id] = [r EXCEPT !.json = p.state, !.response = "none"]]
         /\ UNCHANGED <<map_title, server_name, players_table, backgroundImage,
                        call, last>>

\* .then(callback) on the promise of response.json(), settled to p, for the
\* request id whose record is r: the callback runs on the page when p is
\* fulfilled and is passed over when p is rejected.
ThenCallback(id, p, r) ==
    IF then_calls(p)
    THEN LET data == IF p.state = "fulfilled" THEN p.value ELSE NoData
             run == callback(Page, data)
         IN  /\ requests' = [requests EXCEPT
                               ![id] = [r EXCEPT !.json = p.state, !.response = "none",
                                                 !.calls = @ + 1]]
             /\ call' = [id |-> id, data |-> data]
             /\ last' = RunRecord(data, run)
             /\ map_title' = run.page.map_title
             /\ server_name' = run.page.server_name
             /\ players_table' = run.page.players_table
             /\ backgroundImage' = run.page.backgroundImage
    ELSE /\ requests' = [requests EXCEPT
                           ![id] = [r EXCEPT !.json = p.state, !.response = "none"]]
         /\ UNCHANGED <<map_title, server_name, players_table, backgroundImage,
                        call, last>>

(***************************************************************************)
(* The actions.                                                            *)
(***************************************************************************)
Init ==
    /\ map_title = <<>>
    /\ server_name = <<>>
    /\ players_table = <<>>
    /\ backgroundImage = <<>>
    /\ requests = <<>>
    /\ call = [id |-> 0, data |-> NoData]
    /\ last = [threw |-> FALSE, log |-> <<>>, repeat |-> FALSE]

\* update_info_page(): the request is sent, the page is written later.
update_info_page ==
    /\ Len(requests) < MaxRequests
    /\ requests' = get_server_info(requests)
    /\ UNCHANGED <<map_title, server_name, players_table, backgroundImage,
                   call, last>>

\* fetch settles to p for request id.  Fulfilled: response => response.json()
\* runs and the body is read.  Rejected: the rejection runs down the chain.
FetchSettles(id, p) ==
    /\ id \in 1..Len(requests)
    /\ requests[id].fetch = "pending"
    /\ IF p.state = "fulfilled"
       THEN /\ requests' = [requests EXCEPT
                              ![id] = [@ EXCEPT !.fetch = "fulfilled", !.json = "pending",
                                                !.response = p.value]]
            /\ UNCHANGED <<map_title, server_name, players_table,
                           backgroundImage, call, last>>
       ELSE ThenCallback(id, Rejected, [requests[id] EXCEPT !.fetch = "rejected"])

\* response.json() settles to p for request id.
JsonSettles(id, p) ==
    /\ id \in 1..Len(requests)
    /\ requests[id].json = "pending"
    /\ ThenCallback(id, p, requests[id])

Next ==
    \/ update_info_page
    \/ \E id \in 1..MaxRequests, p \in FetchOutcomes : FetchSettles(id, p)
    \/ \E id \in 1..MaxRequests, p \in JsonOutcomes : JsonSettles(id, p)

Spec == Init /\ [][Next]_vars

(***************************************************************************)
(* The same program when every response arrives and parses: fetch is       *)
(* fulfilled with a 2xx response and response.json() is fulfilled, and     *)
(* neither is delayed for ever.                                            *)
(***************************************************************************)
FetchArrives(id) == FetchSettles(id, Fulfilled("2xx"))
JsonParses(id) == \E p \in JsonOutcomes \ {Rejected} : JsonSettles(id, p)

NextArriving ==
    \/ update_info_page
    \/ \E id \in 1..MaxRequests : FetchArrives(id)
    \/ \E id \in 1..MaxRequests : JsonParses(id)

SpecArriving ==
    /\ Init
    /\ [][NextArriving]_vars
    /\ \A id \in 1..MaxRequests : WF_vars(FetchArrives(id)) /\ WF_vars(JsonParses(id))

(***************************************************************************)
(* What the claims speak of.                                               *)
(***************************************************************************)
\* The callback has run and none of its statements threw.
Completed == call.id # 0 /\ ~last.threw

\* This step is a run of the callback for request id.
CallbackRuns(id) ==
    /\ id \in 1..Len(requests)
    /\ requests'[id].calls = requests[id].calls + 1

\* The step settles request id.
Settles(id) == id \in 1..Len(requests) /\ requests'[id] # requests[id]

\* No request is in flight.
AllSettled == \A id \in 1..Len(requests) : ~Pending(requests[id])

\* The rows a list of well-formed players is to be shown as.
RowsOf(players) ==
    [i \in 1..Len(players) |-> <<escape(players[i].name), escape(players[i].skin)>>]

\* The image identifier names an image: it is there, not empty and not "None".
Usable(image) == image # undefined /\ image # <<>> /\ image # None

\* The three text regions show the response data.
ShowsText(data) ==
    /\ map_title = data.map.name
    /\ server_name = data.servername
    /\ players_table = RowsOf(data.players)

\* The writes of a whole run of the callback on data, in the order of the
\* source: the two titles, the clearing, update_background, then the rows.
WritesOf(data) ==
    <<"map_title", "server_name", "clear", "update_background">>
        \o (IF "players" \in DOMAIN data
            THEN [i \in 1..Len(data.players) |-> "appendChild"] ELSE <<>>)

\* The positions of a write in the log of the latest run.
At(w) == {i \in 1..Len(last.log) : last.log[i] = w}

(***************************************************************************)
(* C1.  For every valid response with N players and every earlier state of *)
(* the page, once the callback has run the table holds exactly N rows, row *)
(* i being the two cells escape(players[i].name), escape(players[i].skin), *)
(* in the order of players.                                                *)
(***************************************************************************)
C1_RowsPerPlayer ==
    (Completed /\ ValidResponse(call.data)) =>
        /\ Len(players_table) = Len(call.data.players)
        /\ \A i \in 1..Len(players_table) :
              /\ Len(players_table[i]) = 2
              /\ players_table[i][1] = escape(call.data.players[i].name)
              /\ players_table[i][2] = escape(call.data.players[i].skin)

\* A second refresh has rendered two players, one with <, > in its name.
C1_Witness ==
    /\ Completed
    /\ ValidResponse(call.data)
    /\ Len(call.data.players) = 2
    /\ call.data.players[2].name = <<"A", "<", "b", ">">>
    /\ players_table[2] = << <<"A", "&", "l", "t", ";", "b", "&", "g", "t", ";">>,
                             <<"u", "s">> >>
    /\ \A id \in 1..2 : id \in 1..Len(requests) /\ requests[id].calls = 1

(***************************************************************************)
(* C2.  As claimed: whenever a callback has completed, the four regions    *)
(* (map_title, server_name, players_table, background) all show the values *)
(* of one response.  The text regions are overwritten by every run and a   *)
(* map has its own name, so that response can only be the latest one; a    *)
(* response without an image has no background of its own.                 *)
(***************************************************************************)
C2_OneSnapshot ==
    (Completed /\ ValidResponse(call.data)) =>
        /\ ShowsText(call.data)
        /\ backgroundImage =
              IF Usable(ImageOf(call.data)) THEN Url(ImageOf(call.data)) ELSE <<>>

(***************************************************************************)
(* C2, amended.  When a callback completes on a valid response r, the      *)
(* three text regions show r, and the background shows the image of r when *)
(* r names one and is left as it was before the callback when r names none.*)
(***************************************************************************)
C2_SnapshotButBackground ==
    [][\A id \in 1..MaxRequests :
          (CallbackRuns(id) /\ ~last'.threw /\ ValidResponse(call'.data)) =>
              /\ map_title' = call'.data.map.name
              /\ server_name' = call'.data.servername
              /\ players_table' = RowsOf(call'.data.players)
              /\ backgroundImage' =
                    IF Usable(ImageOf(call'.data)) THEN Url(ImageOf(call'.data))
                    ELSE backgroundImage]_vars

\* The page shows a response without image over the background of another.
C2_Witness ==
    /\ Completed
    /\ ValidResponse(call.data)
    /\ ShowsText(call.data)
    /\ ~Usable(ImageOf(call.data))
    /\ backgroundImage # <<>>

(***************************************************************************)
(* C3.  update_background(image): an image that is present, not empty and  *)
(* not "None" makes the background url('{static_dir}/img/{image}'); with   *)
(* "None", no image or an empty one the background stays as it was.        *)
(***************************************************************************)
C3_UpdateBackground ==
    [][\A id \in 1..MaxRequests :
          (CallbackRuns(id) /\ \E i \in 1..Len(last'.log) :
                                  last'.log[i] = "update_background") =>
              LET image == ImageOf(call'.data)
              IN  /\ (image \notin {undefined, <<>>, None}) =>
                        backgroundImage' =
                            <<"u", "r", "l", "(", "'">> \o static_dir
                                \o <<"/", "i", "m", "g", "/">> \o image \o <<"'", ")">>
                  /\ (image \in {undefined, <<>>, None}) =>
                        backgroundImage' = backgroundImage]_vars

\* update_background("None") has left url('/s/img/a.jpg') in place.
C3_Witness ==
    /\ call.id # 0
    /\ At("update_background") # {}
    /\ ImageOf(call.data) = None
    /\ backgroundImage = <<"u", "r", "l", "(", "'", "/", "s", "/", "i", "m", "g", "/",
                           "a", ".", "j", "p", "g", "'", ")">>

(***************************************************************************)
(* C4.  Idempotence: when the callback completes twice in succession on    *)
(* the same response, the table after the second run is the table after    *)
(* the first; rows do not accumulate.                                      *)
(***************************************************************************)
C4_Idempotent ==
    [][\A id \in 1..MaxRequests :
          (CallbackRuns(id) /\ Completed /\ ~last'.threw /\ call'.data = call.data) =>
              players_table' = players_table]_vars

\* The same response was rendered twice in succession, with rows in it.
C4_Witness == Completed /\ last.repeat /\ Len(players_table) >= 1

(***************************************************************************)
(* C5.  With overlapping calls, once no request is in flight the text      *)
(* regions show the response whose callback ran last, whatever the order   *)
(* the requests were sent in.                                              *)
(***************************************************************************)
C5_LastCallbackWins ==
    (AllSettled /\ call.id # 0 /\ ValidResponse(call.data)) => ShowsText(call.data)

\* Both requests are through and the page shows the answer to the first:
\* its callback ran after the callback of the second, sent while it was in
\* flight.
C5_Witness ==
    /\ Len(requests) >= 2
    /\ AllSettled
    /\ requests[1].calls = 1
    /\ requests[2].calls = 1
    /\ call.id = 1
    /\ ValidResponse(call.data)
    /\ ShowsText(call.data)
    /\ Len(players_table) >= 1

(***************************************************************************)
(* C6.  When fetch fails at the network level or the body is not JSON, the *)
(* callback is not called for that request, the four regions and the       *)
(* record of the latest call stay as they were, and no request is sent.    *)
(***************************************************************************)
C6_FailureLeavesPage ==
    [][\A id \in 1..MaxRequests :
          (Settles(id) /\ "rejected" \in {requests'[id].fetch, requests'[id].json}) =>
              /\ requests'[id].calls = requests[id].calls
              /\ UNCHANGED <<map_title, server_name, players_table, backgroundImage,
                             call, last>>
              /\ Len(requests') = Len(requests)
              /\ \A j \in 1..Len(requests) : j # id => requests'[j] = requests[j]]_vars

\* The body of the second answer was not JSON and its callback was not
\* called; the page shows the first answer, rows and background.
C6_Witness ==
    /\ Len(requests) >= 2
    /\ requests[2].fetch = "fulfilled"
    /\ requests[2].json = "rejected"
    /\ requests[2].calls = 0
    /\ call.id = 1
    /\ Completed
    /\ ShowsText(call.data)
    /\ players_table # <<>>
    /\ backgroundImage # <<>>

(***************************************************************************)
(* C7.  As claimed: when the server answers with a non-2xx status, the     *)
(* chain ends rejected (the callback is passed over, or throws) and,       *)
(* whatever the body, the four regions stay as they were.                  *)
(***************************************************************************)
C7_Non2xxLeavesPage ==
    [][\A id \in 1..MaxRequests :
          (Settles(id) /\ requests[id].response = "non2xx") =>
              /\ requests'[id].calls = requests[id].calls \/ last'.threw
              /\ UNCHANGED <<map_title, server_name, players_table, backgroundImage>>]_vars

(***************************************************************************)
(* C8.  No pending request is cancelled: when every response arrives and   *)
(* parses, the callback of every call made is eventually called, never     *)
(* more than once, and each run is the run of its own request and writes   *)
(* its own response over the text regions.                                 *)
(***************************************************************************)
C8_EveryCallbackFires ==
    /\ \A id \in 1..MaxRequests :
          (id <= Len(requests)) ~> (id <= Len(requests) /\ requests[id].calls = 1)
    /\ [](\A id \in 1..Len(requests) : requests[id].calls <= 1)
    /\ [][\A id \in 1..MaxRequests :
             CallbackRuns(id) =>
                 /\ call'.id = id
                 /\ ValidResponse(call'.data) =>
                       /\ map_title' = call'.data.map.name
                       /\ server_name' = call'.data.servername
                       /\ players_table' = RowsOf(call'.data.players)]_vars

\* The callbacks of two calls have both run, the one of the first call last:
\* the second call was made while the first was in flight.
C8_Witness ==
    /\ Len(requests) >= 2
    /\ requests[1].calls = 1
    /\ requests[2].calls = 1
    /\ call.id = 1
    /\ Completed

(***************************************************************************)
(* C9.  As claimed: a run of the callback on a valid response writes       *)
(* map_title, server_name, clears the table, appends one row per player    *)
(* and only then calls update_background, so that all the rows of the      *)
(* response are in the table when the background changes; and a response   *)
(* whose rows cannot be rendered leaves the background as it was.          *)
(***************************************************************************)
C9_BackgroundAfterRows ==
    [][\A id \in 1..MaxRequests :
          CallbackRuns(id) =>
              LET log == last'.log
                  data == call'.data
              IN  /\ ValidResponse(data) =>
                        log = <<"map_title", "server_name", "clear">>
                                 \o [i \in 1..Len(data.players) |-> "appendChild"]
                                 \o <<"update_background">>
                  /\ ~ValidResponse(data) => backgroundImage' = backgroundImage]_vars

(***************************************************************************)
(* C9, amended.  In a run of the callback the writes come in the order     *)
(* map_title, server_name, clearing of the table, update_background, then  *)
(* one row per player in order: a run that throws has done a prefix of     *)
(* them, and one that does not has done them all.  So the table is empty   *)
(* when the background changes, and a response that names an image and     *)
(* whose rows cannot be rendered has changed the background.               *)
(***************************************************************************)
C9_BackgroundBeforeRows ==
    [][\A id \in 1..MaxRequests :
          CallbackRuns(id) =>
              LET log == last'.log
                  data == call'.data
              IN  /\ Len(log) > 0 => log = SubSeq(WritesOf(data), 1, Len(log))
                  /\ ~last'.threw => log = WritesOf(data)
                  /\ (last'.threw /\ Len(log) >= 4 /\ Usable(ImageOf(data))) =>
                        backgroundImage' = Url(ImageOf(data))]_vars

\* The only response so far has no players property: its rows could not be
\* rendered, and the background is its image.
C9_Witness ==
    /\ Len(requests) = 1
    /\ call.id = 1
    /\ last.threw
    /\ "map" \in DOMAIN call.data
    /\ "players" \notin DOMAIN call.data
    /\ last.log = <<"map_title", "server_name", "clear", "update_background">>
    /\ players_table = <<>>
    /\ backgroundImage = Url(ImageOf(call.data))

(***************************************************************************)
(* C10.  A run of the callback on a valid response leaves map_title with   *)
(* exactly data.map.name and server_name with exactly data.servername,     *)
(* neither escaped, whatever they held before.                             *)
(***************************************************************************)
C10_RawTitles ==
    (call.id # 0 /\ ValidResponse(call.data)) =>
        /\ map_title = call.data.map.name
        /\ server_name = call.data.servername

\* The second run has written a map name with < and a server name with &,
\* as they are.
C10_Witness ==
    /\ Len(requests) >= 2
    /\ requests[1].calls = 1
    /\ call.id = 2
    /\ ValidResponse(call.data)
    /\ map_title = <<"M", "<", "4">>
    /\ server_name = <<"S", "&", "4">>
    /\ map_title # escape(map_title)
    /\ server_name # escape(server_name)

====
